---------------------------- MODULE Spec2Model ----------------------------
(* A model of qpymenu: the pyMenu / pyMenuItem tree, the show() key loop,   *)
(* its key handlers, draw / erase, and pyMenuItem.execute.                  *)
(* Source: src/qpymenu/qpymenu.py and src/qpymenu/terminal.py.              *)
EXTENDS Integers, Sequences, FiniteSets, TLC

(***************************************************************************)
(* Bounds of the model.                                                    *)
(***************************************************************************)
\* number of pyMenu / pyMenuItem objects that exist (node 1 is the menu show() is called on)
MaxNodes == 4
\* number of background threads that may be alive at the same time
MaxThreads == 2
\* number of add_item calls in the tree-assembly specification
MaxCalls == 3
\* number of _draw / _erase calls in the rendering specification
MaxRenders == 3
\* number of write calls on one pyMenuStdOut in the output specification
MaxWrites == 3
\* number of characters in the text of one write call
MaxText == 3
\* the greatest number of terminal rows os.get_terminal_size reports
MaxRows == 4

Nodes == 1..MaxNodes
Root == 1
\* Python's None, for object references
None == 0

\* the names given to the objects of the navigation specification, by node
NodeNames == <<"Root", "A", "BB", "CCC", "File", "Edit">>

\* the names the menu show() is called on may have: one shorter and one
\* longer than its children's names with their margin
RootNames == {"Root", "Main Menu"}

\* the logical keys read_key can return: the four arrows, ENTER, ESC,
\* a decoded printable character, or None (unknown scan code / undecodable byte)
Keys == {"UP", "DOWN", "LEFT", "RIGHT", "ENTER", "ESC", "x", "None"}

\* python values an item's args can hold, as (type tag, elements)
PyNone == [t |-> "None", v |-> <<>>]
PyEmptyStr == [t |-> "str", v |-> <<>>]
PyInt7 == [t |-> "int", v |-> <<7>>]
PyTuple12 == [t |-> "tuple", v |-> <<1, 2>>]
ArgsValues == {PyNone, PyEmptyStr, PyInt7, PyTuple12}

\* the lines the user may type at the argument prompt
Lines == {"", "  ", "3,4", "5", "*bad*"}

\* how a running action can end: it returns, raises an Exception,
\* or raises SystemExit (exit(), which is not an Exception)
ActionOutcomes == {"return", "raise", "exit"}

VARIABLES
    kind,            \* class of each object: "pyMenu", "pyMenuItem" or "other"
    name,            \* .name
    _type,           \* pyMenu._type: "H" or "V" ("-" for a non-menu)
    _items,          \* pyMenu._items: the OrderedDict's values in key order
    _width,          \* pyMenu._width
    _index,          \* ._index
    _parent,         \* ._parent (None = 0)
    action,          \* pyMenuItem: callable(self.action)
    wait,            \* pyMenuItem.wait
    args,            \* pyMenuItem.args
    threaded,        \* pyMenuItem.threaded
    _current_index,  \* pyMenu._current_index
    _location,       \* ._location = <<row, col>>
    _current_menu,   \* the root's _current_menu: the focused container
    pc,              \* where the main thread is
    screen,          \* the containers whose rows are painted on the terminal
    cells,           \* the terminal cells <<row, col>> that hold menu text
    sent_low,        \* the least row / column number in the cursor addresses that
                     \*   move_to and clear_region have written: <<>> or <<k>>
    stdout,          \* sys.stdout: "__stdout__" or "pyMenuStdOut"
    threads,         \* the background threads alive
    joinee,          \* the thread execute is joining (0 = none)
    executing,       \* the item whose execute() is running (0 = none)
    invoked,         \* since the last key show dispatched: the call execute made
    outcome,         \*   how the last run of an action that ended, ended
    result,          \*   what execute() came to
    banner,          \*   the last message execute wrote
    ackKeys,         \*   the key presses read_key consumed inside execute
    arg_input,       \*   the line read_line returned at the prompt ("none" = no prompt)
    prev,            \* the key last dispatched by show, and the selection before it
    raised,          \* the exception the last add_item call raised
    calls,           \* add_item (or _draw / _erase, or write) calls made so far
    buffer,          \* pyMenuStdOut.buffer of the object sys.stdout is redirected to
    out_rows,        \* the lines _write_buffer has put on the terminal rows 2, 3, ...
    term_rows,       \* the rows os.get_terminal_size gave the last write (0 = no write)
    written,         \* every line of the texts passed to write so far, stripped,
                     \*   the blank ones left out
    up_run           \* the user presses UP and no other key from now on

treeVars == <<kind, name, _type, _items, _width, _index, _parent, action, wait, args, threaded>>
navVars == <<_current_index, _location, _current_menu, screen, cells, sent_low>>
execVars == <<stdout, threads, joinee, executing, invoked, outcome, result, banner, ackKeys,
              arg_input>>
bufVars == <<buffer, out_rows, term_rows, written>>
vars == <<treeVars, navVars, execVars, pc, prev, raised, calls, bufVars, up_run>>

Menus == {n \in Nodes : kind[n] = "pyMenu"}

\* no pyMenuStdOut has been written to
NoBuffer == buffer = <<>> /\ out_rows = <<>> /\ term_rows = 0 /\ written = <<>>

(***************************************************************************)
(* Tree assembly: pyMenu.add_item                                          *)
(***************************************************************************)
\* position (1-based) of the key nm in the OrderedDict items, 0 when absent
KeyPos(items, nm, names) ==
    IF \E i \in 1..Len(items) : names[items[i]] = nm
    THEN CHOOSE i \in 1..Len(items) : names[items[i]] = nm
    ELSE 0

\* self._items[item.name] = item : a new key goes last, an existing key keeps its place
DictSet(items, item, names) ==
    LET p == KeyPos(items, names[item], names)
    IN  IF p = 0 THEN Append(items, item) ELSE [items EXCEPT ![p] = item]

Max(a, b) == IF a >= b THEN a ELSE b

Min(a, b) == IF a <= b THEN a ELSE b

\* mutant: the width becomes that of the child added, whatever it was
add_item_width_of_last(h, kinds, names, self, item) ==
    IF kinds[item] \in {"pyMenu", "pyMenuItem"}
    THEN [items  |-> [h.items EXCEPT ![self] = DictSet(@, item, names)],
          width  |-> [h.width EXCEPT ![self] = Len(names[item]) + 4],
          index  |-> [h.index EXCEPT ![item] = Len(h.items[self])],
          parent |-> [h.parent EXCEPT ![item] = self]]
    ELSE h

\* add_item on a heap h = [items, width, index, parent]
add_item(h, kinds, names, self, item) ==
    IF kinds[item] \in {"pyMenu", "pyMenuItem"}
    THEN [items  |-> [h.items EXCEPT ![self] = DictSet(@, item, names)],
          width  |-> [h.width EXCEPT ![self] = Max(@, Len(names[item]) + 4)],
          index  |-> [h.index EXCEPT ![item] = Len(h.items[self])],
          parent |-> [h.parent EXCEPT ![item] = self]]
    ELSE h

\* pyMenu.__init__ / pyMenuItem.__init__ for every object
NewHeap(kinds, names) ==
    [items  |-> [n \in Nodes |-> <<>>],
     width  |-> [n \in Nodes |-> IF kinds[n] = "pyMenu" THEN Len(names[n]) ELSE 0],
     index  |-> [n \in Nodes |-> -1],
     parent |-> [n \in Nodes |-> None]]

\* the tree after parent[n].add_item(n) for n = 2, 3, ..., upto
RECURSIVE Assemble(_, _, _, _)
Assemble(kinds, names, par, upto) ==
    IF upto < 2 THEN NewHeap(kinds, names)
    ELSE add_item(Assemble(kinds, names, par, upto - 1), kinds, names, par[upto], upto)

(***************************************************************************)
(* The run-time state the key handlers work on, as one record:             *)
(*   ci   _current_index of every container                                *)
(*   loc  _location of every object                                        *)
(*   cm   the root's _current_menu                                         *)
(*   scr  the containers painted on the terminal                           *)
(*   px   the terminal cells that hold menu text                           *)
(*   lo   the least row / column number written in a cursor address        *)
(*   out  sys.stdout                                                       *)
(*   exc  the exception propagating out of the handler ("none" = none)     *)
(*   run  the pyMenuItem whose execute() the handler has reached (0 = none)*)
(***************************************************************************)
Cur == [ci |-> _current_index, loc |-> _location, cm |-> _current_menu,
        scr |-> screen, px |-> cells, lo |-> sent_low, out |-> stdout, exc |-> "none", run |-> None]

Raise(s, e) == IF s.exc = "none" THEN [s EXCEPT !.exc = e] ELSE s

\* writes reach the terminal only while sys.stdout is the terminal
OnTerminal(s) == s.out = "__stdout__"

_is_valid(self) == Len(_items[self]) > 0

\* Terminal.move_to(row, col): both are clamped to 1, then written as "ESC[row;colH"
move_to(s, row, col) ==
    LET k == Min(Max(1, row), Max(1, col))
    IN  [s EXCEPT !.lo = IF @ = <<>> THEN <<k>> ELSE <<Min(@[1], k)>>]

\* the cursor address Terminal.clear_region(row, col_start, col_end) writes:
\* "ESC[row;col_startH", row and col_start as they are passed
clear_region(s, row, col_start) ==
    LET k == Min(row, col_start)
    IN  [s EXCEPT !.lo = IF @ = <<>> THEN <<k>> ELSE <<Min(@[1], k)>>]

height(self) == IF _type[self] = "H" THEN 1 ELSE Len(_items[self])

\* Terminal.clear_screen
clear_screen(s) == IF OnTerminal(s) THEN [s EXCEPT !.scr = {}, !.px = {}] ELSE s

\* the cells a write of w characters covers with the cursor addressed to
\* (row, col); the terminal reads an address 0 as 1
Span(row, col, w) == {<<Max(1, row), c>> : c \in Max(1, col)..(Max(1, col) + w - 1)}

\* the characters of the bar of a Horizontal container up to child k:
\* each entry is "  name   |" (no hotkey)
RECURSIVE HText(_, _)
HText(self, k) ==
    IF k < 1 THEN 0
    ELSE HText(self, k - 1) + Len(name[_items[self][k]]) + 6

\* the cells _draw writes for a Horizontal container
HCells(loc, self) == Span(loc[self][1], loc[self][2], HText(self, Len(_items[self])))

\* the cells _draw writes for the Vertical container m: one row for each
\* entry, "| " + the name padded to _width + "|"
VCells(loc, m) ==
    UNION {Span(loc[m][1] + k - 1, loc[m][2] - 1, _width[m] + 3) : k \in 1..Len(_items[m])}

\* the cells _erase blanks: rows row_start .. row_start + height, columns
\* col_start .. col_start + _width + 2
EraseCells(loc, self) ==
    UNION {Span(loc[self][1] + k, loc[self][2] - 1, _width[self] + 3) : k \in 0..height(self)}

\* the anchors _draw gives the children of a Horizontal container:
\* child k gets row y+1 and the running column x, x advancing by len("  name  |")
RECURSIVE HCol(_, _)
HCol(self, k) ==
    IF k <= 1 THEN 0
    ELSE HCol(self, k - 1) + Len(name[_items[self][k - 1]]) + 5

HLocations(loc, self) ==
    [n \in Nodes |->
        IF \E k \in 1..Len(_items[self]) : _items[self][k] = n
        THEN LET k == CHOOSE k \in 1..Len(_items[self]) : _items[self][k] = n
             IN  <<loc[self][1] + 1, loc[self][2] + HCol(self, k)>>
        ELSE loc[n]]

\* mutant: a pyMenu child is anchored one row below its own entry
VLocations_row_below(loc, m) ==
    [n \in Nodes |->
        IF kind[n] = "pyMenu" /\ \E k \in 1..Len(_items[m]) : _items[m][k] = n
        THEN LET k == CHOOSE k \in 1..Len(_items[m]) : _items[m][k] = n
             IN  <<loc[m][1] + k, loc[m][2] + _width[m]>>
        ELSE loc[n]]

\* the anchors _draw gives the pyMenu children of a Vertical container m:
\* the row of the child's own entry, the column m.x + m._width
VLocations(loc, m) ==
    [n \in Nodes |->
        IF kind[n] = "pyMenu" /\ \E k \in 1..Len(_items[m]) : _items[m][k] = n
        THEN LET k == CHOOSE k \in 1..Len(_items[m]) : _items[m][k] = n
             IN  <<loc[m][1] + (k - 1), loc[m][2] + _width[m]>>
        ELSE loc[n]]

\* the container a Vertical _draw paints: self._current_menu, which is self
\* for every menu but the root, whose _current_menu is the focus
DrawTarget(s, self) == IF self = Root THEN s.cm ELSE self

\* H: one move_to(y, x), then the entries; V: move_to(y + k, x - 1) before
\* each entry of the painted container (the first row is the least)
_draw(s, self) ==
    IF s.exc # "none" THEN s
    ELSE IF _type[self] = "H"
    THEN [move_to(s, s.loc[self][1], s.loc[self][2])
             EXCEPT !.loc = HLocations(s.loc, self),
                    !.px = IF OnTerminal(s) THEN @ \cup HCells(s.loc, self) ELSE @,
                    !.scr = IF OnTerminal(s) THEN @ \cup {self} ELSE @]
    ELSE IF DrawTarget(s, self) = None THEN Raise(s, "AttributeError")
    ELSE LET m == DrawTarget(s, self)
             t == IF Len(_items[m]) > 0 THEN move_to(s, s.loc[m][1], s.loc[m][2] - 1) ELSE s
         IN  [t EXCEPT !.loc = VLocations(s.loc, m),
                       !.px = IF OnTerminal(s) THEN @ \cup VCells(s.loc, m) ELSE @,
                       !.scr = IF OnTerminal(s) THEN @ \cup {m} ELSE @]

\* mutant: the region is blanked but _current_index is not reset
_erase_keeps_index(s, self) ==
    IF s.exc # "none" THEN s
    ELSE [s EXCEPT !.scr = IF OnTerminal(s) THEN @ \ {self} ELSE @]

\* mutant: the anchor moves one row down after the region is blanked
_erase_moves_anchor(s, self) ==
    IF s.exc # "none" THEN s
    ELSE [clear_region(s, s.loc[self][1], s.loc[self][2] - 1)
             EXCEPT !.ci[self] = -1,
                    !.loc[self] = <<s.loc[self][1] + 1, s.loc[self][2]>>,
                    !.px = IF OnTerminal(s) THEN @ \ EraseCells(s.loc, self) ELSE @,
                    !.scr = IF OnTerminal(s) THEN @ \ {self} ELSE @]

\* clear_region(y, col_start, col_end) for the rows row_start .. row_start +
\* height (the first row is the least), then _current_index = -1
_erase(s, self) ==
    IF s.exc # "none" THEN s
    ELSE [clear_region(s, s.loc[self][1], s.loc[self][2] - 1)
             EXCEPT !.ci[self] = -1,
                    !.px = IF OnTerminal(s) THEN @ \ EraseCells(s.loc, self) ELSE @,
                    !.scr = IF OnTerminal(s) THEN @ \ {self} ELSE @]

\* mutant: the root is erased too
RECURSIVE colapse_menu_tree_with_root(_, _)
colapse_menu_tree_with_root(s, self) ==
    IF _parent[self] # None
    THEN colapse_menu_tree_with_root(_erase(s, self), _parent[self])
    ELSE _erase(s, self)

\* mutant: only the focused container is erased, not its ancestors
colapse_menu_tree_one_level(s, self) ==
    IF _parent[self] # None THEN _erase(s, self) ELSE s

RECURSIVE colapse_menu_tree(_, _)
colapse_menu_tree(s, self) ==
    IF _parent[self] # None
    THEN colapse_menu_tree(_erase(s, self), _parent[self])
    ELSE s

\* list(keys)[i] in Python: i < 0 counts from the end; IndexError outside -len..len-1
PyIndexOk(seq, i) == -Len(seq) <= i /\ i < Len(seq)
PyIndex(seq, i) == IF i >= 0 THEN seq[i + 1] ELSE seq[Len(seq) + i + 1]

\* _get_current_item: [exc, item]; the item is looked up in the focused
\* container, the -1 test reads the root's own _current_index
_get_current_item(s) ==
    IF s.cm = None THEN [exc |-> "AttributeError", item |-> None]
    ELSE IF ~PyIndexOk(_items[s.cm], s.ci[s.cm]) THEN [exc |-> "IndexError", item |-> None]
    ELSE IF s.ci[Root] = -1 THEN [exc |-> "none", item |-> None]
    ELSE [exc |-> "none", item |-> PyIndex(_items[s.cm], s.ci[s.cm])]

\* mutant: a Horizontal container at index 0 wraps to its last child
_dec_current_index_wraps(s, self) ==
    LET current_index == s.ci[self]
    IN  IF current_index <= 0 /\ _type[self] = "V" THEN [s |-> s, ret |-> FALSE]
        ELSE IF current_index <= 0 /\ _type[self] = "H"
        THEN [s |-> [s EXCEPT !.ci[self] = Len(_items[self]) - 1], ret |-> TRUE]
        ELSE [s |-> [s EXCEPT !.ci[self] = current_index - 1], ret |-> TRUE]

\* mutant: a Vertical container above index 0 keeps its index
_dec_current_index_stuck(s, self) ==
    LET current_index == s.ci[self]
    IN  IF current_index <= 0 /\ _type[self] = "V" THEN [s |-> s, ret |-> FALSE]
        ELSE IF current_index <= 0 /\ _type[self] = "H"
        THEN [s |-> [s EXCEPT !.ci[self] = 0], ret |-> TRUE]
        ELSE [s |-> s, ret |-> TRUE]

\* _dec_current_index: [s, ret]
_dec_current_index(s, self) ==
    LET current_index == s.ci[self]
    IN  IF current_index <= 0 /\ _type[self] = "V" THEN [s |-> s, ret |-> FALSE]
        ELSE IF current_index <= 0 /\ _type[self] = "H"
        THEN [s |-> [s EXCEPT !.ci[self] = 0], ret |-> TRUE]
        ELSE [s |-> [s EXCEPT !.ci[self] = current_index - 1], ret |-> TRUE]

\* mutant: the increment without the test against the last index
_inc_current_index_unbounded(s, self) ==
    [s EXCEPT !.ci[self] = s.ci[self] + 1]

_inc_current_index(s, self) ==
    LET current_index == s.ci[self]
    IN  IF current_index < Len(_items[self]) - 1
        THEN [s EXCEPT !.ci[self] = current_index + 1]
        ELSE s

\* mutant: at index 0 or -1 the container is erased but keeps the focus
_on_up_keeps_focus(s) ==
    IF _type[s.cm] = "H" THEN s
    ELSE LET r == _dec_current_index(s, s.cm)
         IN  IF ~r.ret
             THEN _erase(r.s, s.cm)
             ELSE _draw(r.s, s.cm)

_on_up(s) ==
    IF _type[s.cm] = "H" THEN s
    ELSE LET r == _dec_current_index(s, s.cm)
         IN  IF ~r.ret
             THEN [_erase(r.s, s.cm) EXCEPT !.cm = _parent[s.cm]]
             ELSE _draw(r.s, s.cm)

\* mutant: "if item", without the _is_valid test
EnterIfItem(s, g) ==
    IF g.exc # "none" THEN Raise(s, g.exc)
    ELSE IF g.item = None THEN s
    ELSE IF kind[g.item] # "pyMenu" THEN s
    ELSE _draw([s EXCEPT !.cm = g.item], g.item)

\* "if item and item._is_valid": a pyMenuItem has no _is_valid attribute
EnterIfValid(s, g) ==
    IF g.exc # "none" THEN Raise(s, g.exc)
    ELSE IF g.item = None THEN s
    ELSE IF kind[g.item] # "pyMenu" THEN Raise(s, "AttributeError")
    ELSE IF _is_valid(g.item) THEN _draw([s EXCEPT !.cm = g.item], g.item)
    ELSE s

_on_down(s) ==
    IF _type[s.cm] = "H"
    THEN EnterIfValid(s, _get_current_item(s))
    ELSE _draw(_inc_current_index(s, s.cm), s.cm)

\* mutant: a Vertical container is left from index 1 as well
_on_left_from_one(s) ==
    IF _type[s.cm] = "H" THEN _dec_current_index(s, s.cm).s
    ELSE IF s.ci[s.cm] <= 1
    THEN [_erase([s EXCEPT !.ci[s.cm] = -1], s.cm) EXCEPT !.cm = _parent[s.cm]]
    ELSE s

_on_left(s) ==
    IF _type[s.cm] = "H" THEN _dec_current_index(s, s.cm).s
    ELSE IF s.ci[s.cm] = 0 \/ s.ci[s.cm] = -1
    THEN [_erase([s EXCEPT !.ci[s.cm] = -1], s.cm) EXCEPT !.cm = _parent[s.cm]]
    ELSE s

\* mutant: RIGHT on a selected pyMenuItem runs it, as ENTER does
_on_right_executes(s) ==
    IF _type[s.cm] = "H" THEN _inc_current_index(s, s.cm)
    ELSE LET g == _get_current_item(s)
         IN  IF g.exc # "none" THEN Raise(s, g.exc)
             ELSE IF s.ci[s.cm] = -1 THEN [s EXCEPT !.ci[s.cm] = 0]
             ELSE IF g.item # None /\ kind[g.item] = "pyMenu" /\ _is_valid(g.item)
             THEN [_draw(s, g.item) EXCEPT !.cm = g.item]
             ELSE IF g.item # None /\ kind[g.item] = "pyMenuItem"
             THEN [colapse_menu_tree(s, s.cm) EXCEPT !.run = g.item]
             ELSE s

_on_right(s) ==
    IF _type[s.cm] = "H" THEN _inc_current_index(s, s.cm)
    ELSE LET g == _get_current_item(s)
         IN  IF g.exc # "none" THEN Raise(s, g.exc)
             ELSE IF s.ci[s.cm] = -1 THEN [s EXCEPT !.ci[s.cm] = 0]
             ELSE IF g.item # None /\ kind[g.item] = "pyMenu" /\ _is_valid(g.item)
             THEN [_draw(s, g.item) EXCEPT !.cm = g.item]
             ELSE s

\* mutant: without the branch that turns the index -1 into 0
_on_enter_item_first(s) ==
    IF _type[s.cm] = "H"
    THEN EnterIfValid(s, _get_current_item(s))
    ELSE LET g == _get_current_item(s)
         IN  IF g.exc # "none" THEN Raise(s, g.exc)
             ELSE IF g.item # None /\ kind[g.item] = "pyMenu" /\ _is_valid(g.item)
             THEN [_draw(s, g.item) EXCEPT !.cm = g.item]
             ELSE IF g.item # None /\ kind[g.item] = "pyMenuItem"
             THEN [colapse_menu_tree(s, s.cm) EXCEPT !.run = g.item]
             ELSE s

\* mutant: the item is executed with the menus of the focus path left painted
_on_enter_no_collapse(s) ==
    IF _type[s.cm] = "H"
    THEN EnterIfValid(s, _get_current_item(s))
    ELSE LET g == _get_current_item(s)
         IN  IF g.exc # "none" THEN Raise(s, g.exc)
             ELSE IF s.ci[s.cm] = -1 THEN [s EXCEPT !.ci[s.cm] = 0]
             ELSE IF g.item # None /\ kind[g.item] = "pyMenu" /\ _is_valid(g.item)
             THEN [_draw(s, g.item) EXCEPT !.cm = g.item]
             ELSE IF g.item # None /\ kind[g.item] = "pyMenuItem"
             THEN [s EXCEPT !.run = g.item]
             ELSE s

\* _on_enter up to the call of item.execute(): run names the item reached
_on_enter(s) ==
    IF _type[s.cm] = "H"
    THEN EnterIfValid(s, _get_current_item(s))
    ELSE LET g == _get_current_item(s)
         IN  IF g.exc # "none" THEN Raise(s, g.exc)
             ELSE IF s.ci[s.cm] = -1 THEN [s EXCEPT !.ci[s.cm] = 0]
             ELSE IF g.item # None /\ kind[g.item] = "pyMenu" /\ _is_valid(g.item)
             THEN [_draw(s, g.item) EXCEPT !.cm = g.item]
             ELSE IF g.item # None /\ kind[g.item] = "pyMenuItem"
             THEN [colapse_menu_tree(s, s.cm) EXCEPT !.run = g.item]
             ELSE s

\* mutant: a key without a branch of its own is handled like ENTER
Dispatch_other_as_enter(s, key) ==
    CASE key = "UP" -> _on_up(s)
      [] key = "RIGHT" -> _on_right(s)
      [] key = "LEFT" -> _on_left(s)
      [] key = "DOWN" -> _on_down(s)
      [] OTHER -> _on_enter(s)

\* the if / elif chain of show: any other key has no branch
Dispatch(s, key) ==
    CASE key = "UP" -> _on_up(s)
      [] key = "RIGHT" -> _on_right(s)
      [] key = "LEFT" -> _on_left(s)
      [] key = "DOWN" -> _on_down(s)
      [] key = "ENTER" -> _on_enter(s)
      [] OTHER -> s

\* the top of the while loop: draw the focused container and write the status
\* line (both read attributes of self._current_menu)
LoopTop(s) ==
    IF s.exc # "none" THEN s
    ELSE IF s.cm = None THEN Raise(s, "AttributeError")
    ELSE _draw(s, s.cm)

\* _on_enter after item.execute() has returned, then the next loop iteration
AfterExecute(s) == LoopTop(_draw([s EXCEPT !.cm = Root], Root))

(***************************************************************************)
(* pyMenuItem.execute                                                      *)
(***************************************************************************)
\* arg_input.strip()
strip(line) == IF line = "  " THEN "" ELSE line

\* mutant: text that does not parse falls back to the empty tuple
literal_eval_fallback(text) ==
    CASE text = "3,4" -> [ok |-> TRUE, value |-> <<3, 4>>]
      [] text = "5" -> [ok |-> TRUE, value |-> <<5>>]
      [] OTHER -> [ok |-> TRUE, value |-> <<>>]

\* ast.literal_eval(f"({text},)") on the lines of Lines: [ok, value]
literal_eval(text) ==
    CASE text = "3,4" -> [ok |-> TRUE, value |-> <<3, 4>>]
      [] text = "5" -> [ok |-> TRUE, value |-> <<5>>]
      [] OTHER -> [ok |-> FALSE, value |-> <<>>]

\* mutant: a tuple is wrapped like any other value, (t,)
ResolveArgs_wrap_all(a) ==
    IF a.t = "None" THEN <<>> ELSE <<a.v>>

\* the argument tuple for static args: None is (), a tuple is itself,
\* any other value v is (v,)
ResolveArgs(a) ==
    IF a.t = "None" THEN <<>>
    ELSE IF a.t = "tuple" THEN a.v
    ELSE <<a.v>>

NotCalled == [called |-> FALSE, args |-> <<>>]
Called(argv) == [called |-> TRUE, args |-> argv]

Commit(s) ==
    /\ _current_index' = s.ci
    /\ _location' = s.loc
    /\ _current_menu' = s.cm
    /\ screen' = s.scr
    /\ cells' = s.px
    /\ sent_low' = s.lo
    /\ stdout' = s.out

LoopPc(s) == IF s.exc # "none" THEN "crashed" ELSE "read_key"

\* execute() returned: back in _on_enter, then the next iteration of show
ResumeLoop(s) ==
    LET t == AfterExecute(s)
    IN  Commit(t) /\ pc' = LoopPc(t) /\ executing' = None

\* mutant: the thread is started and never joined, whatever wait is
call_action_never_joins(s, item, argv) ==
    /\ invoked' = Called(argv)
    /\ outcome' = "none"
    /\ IF threaded[item]
       THEN /\ Cardinality(threads) < MaxThreads
            /\ LET t == CHOOSE t \in 1..MaxThreads : t \notin threads
               IN  /\ threads' = threads \cup {t}
                   /\ joinee' = joinee
                   /\ result' = "Launched"
                   /\ ResumeLoop(s)
       ELSE /\ Commit([s EXCEPT !.out = "pyMenuStdOut"])
            /\ pc' = "action"
            /\ executing' = item
            /\ result' = "Running"
            /\ UNCHANGED <<threads, joinee>>

\* the try block of execute, with the argument tuple argv
call_action(s, item, argv) ==
    /\ invoked' = Called(argv)
    /\ outcome' = "none"
    /\ IF threaded[item]
       THEN /\ Cardinality(threads) < MaxThreads
            /\ LET t == CHOOSE t \in 1..MaxThreads : t \notin threads
               IN  /\ threads' = threads \cup {t}
                   /\ IF wait[item]
                      THEN /\ joinee' = t
                           /\ result' = "Joining"
                           /\ pc' = "join"
                           /\ executing' = item
                           /\ Commit(s)
                      ELSE /\ joinee' = joinee
                           /\ result' = "Launched"
                           /\ ResumeLoop(s)
       ELSE /\ Commit([s EXCEPT !.out = "pyMenuStdOut"])
            /\ pc' = "action"
            /\ executing' = item
            /\ result' = "Running"
            /\ UNCHANGED <<threads, joinee>>

\* item.execute() up to the first point where it blocks
execute(s, item) ==
    /\ ackKeys' = 0
    /\ arg_input' = "none"
    /\ IF ~action[item]
       THEN /\ banner' = "not_callable"
            /\ pc' = "not_callable_key"
            /\ executing' = item
            /\ result' = "NotCallable"
            /\ invoked' = NotCalled
            /\ outcome' = "none"
            /\ Commit(s)
            /\ UNCHANGED <<threads, joinee>>
       ELSE IF args[item] = PyEmptyStr
       THEN /\ banner' = "none"
            /\ pc' = "read_line"
            /\ executing' = item
            /\ result' = "Prompting"
            /\ invoked' = NotCalled
            /\ outcome' = "none"
            /\ Commit(s)
            /\ UNCHANGED <<threads, joinee>>
       ELSE /\ banner' = "none"
            /\ call_action(s, item, ResolveArgs(args[item]))

(***************************************************************************)
(* show                                                                    *)
(***************************************************************************)
\* show(): nothing happens for a menu without items; otherwise the screen is
\* cleared and the loop starts
Show ==
    /\ pc = "start"
    /\ IF _is_valid(Root)
       THEN LET s == LoopTop(IF _parent[Root] = None THEN clear_screen(Cur) ELSE Cur)
            IN  Commit(s) /\ pc' = LoopPc(s)
       ELSE pc' = "returned" /\ UNCHANGED <<navVars, stdout>>
    /\ UNCHANGED <<treeVars, bufVars, up_run, threads, joinee, executing, invoked, outcome, result,
                   banner, ackKeys, prev, raised, calls, arg_input>>

\* one iteration of the while loop of show from the key it reads: s is the
\* state the handler leaves, t the state after the draw at the top of the loop
KeyStep(key) ==
    /\ pc = "read_key"
    /\ prev' = [key |-> key, cm |-> _current_menu, ci |-> _current_index]
    /\ \E c \in {Cur} : \E s \in {Dispatch(c, key)} : \E t \in {LoopTop(s)} :
           IF s.exc = "none" /\ s.run # None
           THEN execute(s, s.run)
           ELSE /\ Commit(t)
                /\ pc' = LoopPc(t)
                /\ result' = "none"
                /\ invoked' = NotCalled
                /\ outcome' = "none"
                /\ banner' = "none"
                /\ ackKeys' = 0
                /\ arg_input' = "none"
                /\ UNCHANGED <<threads, joinee, executing>>
    /\ UNCHANGED <<treeVars, bufVars, up_run, raised, calls>>

KeyUp == KeyStep("UP")
KeyDown == KeyStep("DOWN")
KeyLeft == KeyStep("LEFT")
KeyRight == KeyStep("RIGHT")
KeyEnter == KeyStep("ENTER")
KeyEsc == KeyStep("ESC")
KeyOther == \E key \in {"x", "None"} : KeyStep(key)

\* Terminal.read_line returned the line typed at the argument prompt
ReadLine ==
    /\ pc = "read_line"
    /\ \E line \in Lines :
          /\ arg_input' = line
          /\ IF strip(line) # ""
               THEN LET r == literal_eval(strip(line))
                    IN  IF r.ok
                        THEN call_action(Cur, executing, r.value) /\ UNCHANGED banner
                        ELSE /\ banner' = "parse_error"
                             /\ result' = "ArgumentError"
                             /\ pc' = "parse_error_key"
                             /\ UNCHANGED <<navVars, stdout, threads, joinee, executing,
                                            invoked, outcome>>
               ELSE call_action(Cur, executing, <<>>) /\ UNCHANGED banner
    /\ UNCHANGED <<treeVars, bufVars, up_run, ackKeys, prev, raised, calls>>

\* read_key() after "Error parsing arguments", then return False
ParseErrorKey ==
    /\ pc = "parse_error_key"
    /\ \E key \in Keys :
          /\ ackKeys' = ackKeys + 1
          /\ ResumeLoop(Cur)
    /\ UNCHANGED <<treeVars, bufVars, up_run, threads, joinee, invoked, outcome, result, banner,
                   prev, raised, calls, arg_input>>

\* mutant: the pause after a foreground action, whatever wait is
ActionReturn_always_pauses ==
    /\ pc = "action"
    /\ outcome' = "return"
    /\ result' = "Completed"
    /\ banner' = "press_any_key"
    /\ pc' = "wait_key"
    /\ Commit([Cur EXCEPT !.out = "__stdout__"])
    /\ UNCHANGED executing
    /\ UNCHANGED <<treeVars, bufVars, up_run, threads, joinee, invoked, ackKeys, prev, raised, calls, arg_input>>

\* self.action(*args) returned: sys.stdout is restored, then the pause if wait
ActionReturn ==
    /\ pc = "action"
    /\ outcome' = "return"
    /\ result' = "Completed"
    /\ LET s == [Cur EXCEPT !.out = "__stdout__"]
       IN  IF wait[executing] /\ ~threaded[executing]
           THEN /\ banner' = "press_any_key"
                /\ pc' = "wait_key"
                /\ Commit(s)
                /\ UNCHANGED executing
           ELSE ResumeLoop(s) /\ UNCHANGED banner
    /\ UNCHANGED <<treeVars, bufVars, up_run, threads, joinee, invoked, ackKeys, prev, raised, calls, arg_input>>

\* mutant: no except branch, the exception leaves execute and show
ActionRaise_uncaught ==
    /\ pc = "action"
    /\ outcome' = "raise"
    /\ result' = "ActionFailed"
    /\ pc' = "crashed"
    /\ UNCHANGED <<treeVars, bufVars, up_run, navVars, stdout, threads, joinee, executing, invoked,
                   banner, ackKeys, prev, raised, calls, arg_input>>

\* self.action(*args) raised an Exception: the except branch writes the banner
ActionRaise ==
    /\ pc = "action"
    /\ outcome' = "raise"
    /\ result' = "ActionFailed"
    /\ banner' = "exec_error"
    /\ pc' = "error_key"
    /\ UNCHANGED <<treeVars, bufVars, up_run, navVars, stdout, threads, joinee, executing, invoked,
                   ackKeys, prev, raised, calls, arg_input>>

\* self.action(*args) raised SystemExit, which "except Exception" lets through
ActionExit ==
    /\ pc = "action"
    /\ outcome' = "exit"
    /\ result' = "Exited"
    /\ pc' = "exited"
    /\ UNCHANGED <<treeVars, bufVars, up_run, navVars, stdout, threads, joinee, executing, invoked,
                   banner, ackKeys, prev, raised, calls, arg_input>>

\* read_key() in the except branch, then clear_screen and return False
ErrorKey ==
    /\ pc = "error_key"
    /\ \E key \in Keys :
          /\ ackKeys' = ackKeys + 1
          /\ ResumeLoop(clear_screen(Cur))
    /\ UNCHANGED <<treeVars, bufVars, up_run, threads, joinee, invoked, outcome, result, banner,
                   prev, raised, calls, arg_input>>

\* read_key() after "Press any key to return to menu", then clear_screen
WaitKey ==
    /\ pc = "wait_key"
    /\ \E key \in Keys :
          /\ ackKeys' = ackKeys + 1
          /\ ResumeLoop(clear_screen(Cur))
    /\ UNCHANGED <<treeVars, bufVars, up_run, threads, joinee, invoked, outcome, result, banner,
                   prev, raised, calls, arg_input>>

\* read_key() of the branch for an action that is not callable
NotCallableKey ==
    /\ pc = "not_callable_key"
    /\ \E key \in Keys :
          /\ ackKeys' = ackKeys + 1
          /\ ResumeLoop(Cur)
    /\ UNCHANGED <<treeVars, bufVars, up_run, threads, joinee, invoked, outcome, result, banner,
                   prev, raised, calls, arg_input>>

\* a background thread's action ends; whatever it raises stays in the thread
ThreadEnd ==
    /\ \E t \in threads, o \in ActionOutcomes :
          /\ threads' = threads \ {t}
          /\ outcome' = o
    /\ UNCHANGED <<treeVars, bufVars, up_run, navVars, stdout, joinee, executing, invoked, result,
                   banner, ackKeys, pc, prev, raised, calls, arg_input>>

\* mutant: t.join() returns at once, whether or not the thread has ended
Join_no_wait ==
    /\ pc = "join"
    /\ joinee' = 0
    /\ result' = "Joined"
    /\ ResumeLoop(Cur)
    /\ UNCHANGED <<treeVars, bufVars, up_run, threads, invoked, outcome, banner, ackKeys,
                   prev, raised, calls, arg_input>>

\* t.join() returns once the thread has ended
Join ==
    /\ pc = "join"
    /\ joinee \notin threads
    /\ joinee' = 0
    /\ result' = "Joined"
    /\ ResumeLoop(Cur)
    /\ UNCHANGED <<treeVars, bufVars, up_run, threads, invoked, outcome, banner, ackKeys,
                   prev, raised, calls, arg_input>>

(***************************************************************************)
(* The navigation specification: a well-formed tree, built by add_item     *)
(* calls with fresh, uniquely named children, then show() on the root.     *)
(***************************************************************************)
\* what node n >= 2 is: a Horizontal menu, a Vertical menu or an item, and
\* the node it is added to
Descs == [k : {"H", "V", "item"}, p : 1..(MaxNodes - 1)]

KindOf(d) == IF d.k = "item" THEN "pyMenuItem" ELSE "pyMenu"

\* the (callable, threaded, wait, args) settings the items of a tree share
Config(a, t, w, g) == [action |-> a, threaded |-> t, wait |-> w, args |-> g]

\* every setting execute distinguishes
AllConfigs ==
    {Config(TRUE, t, w, g) : t \in BOOLEAN, w \in BOOLEAN, g \in ArgsValues}
    \cup {Config(FALSE, FALSE, w, PyNone) : w \in BOOLEAN}

\* the settings tried on every tree: a prompting foreground item that pauses,
\* a joined background item, and an item whose action is not callable
BaseConfigs ==
    {Config(TRUE, FALSE, TRUE, PyEmptyStr), Config(TRUE, TRUE, TRUE, PyNone),
     Config(FALSE, FALSE, TRUE, PyNone)}

\* the trees every setting is tried on: all items in one Vertical menu, which
\* is the root or the only child of a Horizontal root (as in src/main.py)
ItemsInOneMenu(rootType, d) ==
    \/ rootType = "V" /\ \A n \in 2..MaxNodes : d[n].k = "item" /\ d[n].p = Root
    \/ /\ rootType = "H" /\ d[2].k = "V" /\ d[2].p = Root
       /\ \A n \in 3..MaxNodes : d[n].k = "item" /\ d[n].p = 2

\* the objects of a tree: root of type rootType named rootName, node n >= 2
\* as d[n] says, every item with the settings c
Tree(rootType, rootName, d, c) ==
        /\ \A n \in 2..MaxNodes :
              d[n].p < n /\ (IF d[n].p = Root THEN TRUE ELSE d[d[n].p].k # "item")
        /\ kind = [n \in Nodes |-> IF n = Root THEN "pyMenu" ELSE KindOf(d[n])]
        /\ name = [n \in Nodes |-> IF n = Root THEN rootName ELSE NodeNames[n]]
        /\ _type = [n \in Nodes |-> IF n = Root THEN rootType
                                    ELSE IF d[n].k = "item" THEN "-" ELSE d[n].k]
        /\ LET h == Assemble(kind, name, [n \in Nodes |-> IF n = Root THEN None ELSE d[n].p],
                             MaxNodes)
           IN  /\ _items = h.items
               /\ _width = h.width
               /\ _index = h.index
               /\ _parent = h.parent
        /\ action = [n \in Nodes |-> kind[n] = "pyMenuItem" /\ c.action]
        /\ wait = [n \in Nodes |-> kind[n] = "pyMenuItem" /\ c.wait]
        /\ threaded = [n \in Nodes |-> kind[n] = "pyMenuItem" /\ c.threaded]
        /\ args = [n \in Nodes |-> IF kind[n] = "pyMenuItem" THEN c.args ELSE PyNone]

\* the trees the longer root name is tried on: every object is a child of the root
Flat(d) == \A n \in 2..MaxNodes : d[n].p = Root

Init ==
    \E rootType \in {"H", "V"}, rootName \in RootNames, d \in [2..MaxNodes -> Descs],
       c \in AllConfigs :
        /\ IF ItemsInOneMenu(rootType, d) THEN TRUE ELSE c \in BaseConfigs
        /\ IF rootName = "Root" THEN TRUE ELSE Flat(d) /\ c \in BaseConfigs
        /\ Tree(rootType, rootName, d, c)
        /\ _current_index = [n \in Nodes |-> -1]
        /\ _location = [n \in Nodes |-> <<1, 1>>]
        /\ _current_menu = Root
        /\ pc = "start"
        /\ screen = {}
        /\ cells = {}
        /\ sent_low = <<>>
        /\ stdout = "__stdout__"
        /\ threads = {}
        /\ joinee = 0
        /\ executing = None
        /\ invoked = NotCalled
        /\ outcome = "none"
        /\ result = "none"
        /\ banner = "none"
        /\ ackKeys = 0
        /\ arg_input = "none"
        /\ prev = [key |-> "none", cm |-> None, ci |-> [n \in Nodes |-> -1]]
        /\ raised = "None"
        /\ calls = 0
        /\ NoBuffer
        /\ up_run = FALSE

Next ==
    \/ Show
    \/ KeyUp
    \/ KeyDown
    \/ KeyLeft
    \/ KeyRight
    \/ KeyEnter
    \/ KeyEsc
    \/ KeyOther
    \/ ReadLine
    \/ ParseErrorKey
    \/ ActionReturn
    \/ ActionRaise
    \/ ActionExit
    \/ ErrorKey
    \/ WaitKey
    \/ NotCallableKey
    \/ ThreadEnd
    \/ Join

Spec == Init /\ [][Next]_vars

(***************************************************************************)
(* The tree-assembly specification: objects are constructed, then add_item *)
(* is called with any container and any object, in any order.              *)
(***************************************************************************)
\* the objects: two menus, then items and objects of another class; an object
\* has its own name or the name "A"
InitAttach ==
    \E k \in [Nodes -> {"pyMenu", "pyMenuItem", "other"}], dup \in SUBSET (3..MaxNodes) :
        /\ \A n \in Nodes : IF n <= 2 THEN k[n] = "pyMenu" ELSE k[n] # "pyMenu"
        /\ kind = k
        /\ name = [n \in Nodes |-> IF n \in dup THEN "A" ELSE NodeNames[n]]
        /\ _type = [n \in Nodes |-> IF k[n] = "pyMenu" THEN "V" ELSE "-"]
        /\ LET h == NewHeap(kind, name)
           IN  /\ _items = h.items
               /\ _width = h.width
               /\ _index = h.index
               /\ _parent = h.parent
        /\ action = [n \in Nodes |-> k[n] = "pyMenuItem"]
        /\ wait = [n \in Nodes |-> k[n] = "pyMenuItem"]
        /\ threaded = [n \in Nodes |-> FALSE]
        /\ args = [n \in Nodes |-> PyNone]
        /\ _current_index = [n \in Nodes |-> -1]
        /\ _location = [n \in Nodes |-> <<1, 1>>]
        /\ _current_menu = Root
        /\ pc = "assemble"
        /\ screen = {}
        /\ cells = {}
        /\ sent_low = <<>>
        /\ stdout = "__stdout__"
        /\ threads = {}
        /\ joinee = 0
        /\ executing = None
        /\ invoked = NotCalled
        /\ outcome = "none"
        /\ result = "none"
        /\ banner = "none"
        /\ ackKeys = 0
        /\ arg_input = "none"
        /\ prev = [key |-> "none", cm |-> None, ci |-> [n \in Nodes |-> -1]]
        /\ raised = "None"
        /\ calls = 0
        /\ NoBuffer
        /\ up_run = FALSE

\* self.add_item(item): the call returns normally whatever item is
AddItemTo(self, item) ==
    /\ pc = "assemble"
    /\ calls < MaxCalls
    /\ LET h == add_item([items |-> _items, width |-> _width, index |-> _index,
                          parent |-> _parent], kind, name, self, item)
       IN  /\ _items' = h.items
           /\ _width' = h.width
           /\ _index' = h.index
           /\ _parent' = h.parent
    /\ raised' = "None"
    /\ calls' = calls + 1
    /\ UNCHANGED <<kind, name, _type, action, wait, args, threaded, navVars, execVars,
                   pc, prev, bufVars, up_run>>

AddItem == \E self \in Menus, item \in Nodes \ {Root} : AddItemTo(self, item)

NextAttach == AddItem

SpecAttach == InitAttach /\ [][NextAttach]_vars

(***************************************************************************)
(* The rendering specification: _draw and _erase called on the containers  *)
(* of a tree in any order, from any selection the containers can hold.     *)
(***************************************************************************)
InitRender ==
    \E rootType \in {"H", "V"}, d \in [2..MaxNodes -> Descs], c \in BaseConfigs,
       ci \in [Nodes -> {-1, 0}] :
        /\ Tree(rootType, "Root", d, c)
        /\ c.args = PyNone /\ c.action
        /\ \A n \in Nodes : ci[n] = -1 \/ (kind[n] = "pyMenu" /\ ci[n] < Len(_items[n]))
        /\ _current_index = ci
        /\ _location = [n \in Nodes |-> <<1, 1>>]
        /\ _current_menu = Root
        /\ pc = "render"
        /\ screen = {}
        /\ cells = {}
        /\ sent_low = <<>>
        /\ stdout = "__stdout__"
        /\ threads = {}
        /\ joinee = 0
        /\ executing = None
        /\ invoked = NotCalled
        /\ outcome = "none"
        /\ result = "none"
        /\ banner = "none"
        /\ ackKeys = 0
        /\ arg_input = "none"
        /\ prev = [key |-> "none", cm |-> None, ci |-> [n \in Nodes |-> -1]]
        /\ raised = "None"
        /\ calls = 0
        /\ NoBuffer
        /\ up_run = FALSE

\* self._draw()
RenderDraw(self) ==
    /\ pc = "render"
    /\ calls < MaxRenders
    /\ calls' = calls + 1
    /\ prev' = [key |-> "_draw", cm |-> self, ci |-> _current_index]
    /\ Commit(_draw(Cur, self))
    /\ UNCHANGED <<treeVars, bufVars, up_run, threads, joinee, executing, invoked, outcome, result,
                   banner, ackKeys, arg_input, pc, raised>>

\* self._erase()
RenderErase(self) ==
    /\ pc = "render"
    /\ calls < MaxRenders
    /\ calls' = calls + 1
    /\ prev' = [key |-> "_erase", cm |-> self, ci |-> _current_index]
    /\ Commit(_erase(Cur, self))
    /\ UNCHANGED <<treeVars, bufVars, up_run, threads, joinee, executing, invoked, outcome, result,
                   banner, ackKeys, arg_input, pc, raised>>

Draw == \E self \in Menus : RenderDraw(self)

Erase == \E self \in Menus : RenderErase(self)

NextRender == Draw \/ Erase

SpecRender == InitRender /\ [][NextRender]_vars

(***************************************************************************)
(* The output specification: Terminal.pyMenuStdOut, the object sys.stdout  *)
(* is while a foreground action runs. A text is a sequence of characters,  *)
(* a line a sequence of characters too.                                    *)
(***************************************************************************)
\* the characters of the texts: two letters, the blank and the line feed
Chars == {"a", "b", " ", "\n"}

\* the characters str.strip() removes
Whitespace == {" ", "\n"}

\* the texts an action may pass to write in one call
Texts == UNION {[1..k -> Chars] : k \in 0..MaxText}

\* the numbers of rows of the terminal: from one too short to show a line
TermRows == 2..MaxRows

\* text.splitlines('\n'): the argument is keepends, and it is true, so every
\* line keeps its line feed; no line follows a final line feed
RECURSIVE splitlines(_)
splitlines(text) ==
    IF text = <<>> THEN <<>>
    ELSE IF \E i \in 1..Len(text) : text[i] = "\n"
    THEN LET i == CHOOSE i \in 1..Len(text) :
                      text[i] = "\n" /\ \A j \in 1..(i - 1) : text[j] # "\n"
         IN  <<SubSeq(text, 1, i)>> \o splitlines(SubSeq(text, i + 1, Len(text)))
    ELSE <<text>>

RECURSIVE lstrip(_)
lstrip(line) ==
    IF line # <<>> /\ Head(line) \in Whitespace THEN lstrip(Tail(line)) ELSE line

RECURSIVE rstrip(_)
rstrip(line) ==
    IF line # <<>> /\ line[Len(line)] \in Whitespace
    THEN rstrip(SubSeq(line, 1, Len(line) - 1))
    ELSE line

\* line.strip()
line_strip(line) == rstrip(lstrip(line))

\* the for loop of write: every line is stripped and appended unless it is ''
RECURSIVE append_lines(_, _)
append_lines(buf, lines) ==
    IF lines = <<>> THEN buf
    ELSE LET line == line_strip(Head(lines))
         IN  append_lines(IF line # <<>> THEN Append(buf, line) ELSE buf, Tail(lines))

\* mutant: the while loop drops the newest line, buffer.pop()
RECURSIVE evict_newest(_, _)
evict_newest(buf, rows) ==
    IF Len(buf) > rows - 2
    THEN IF buf = <<>> THEN [buffer |-> buf, exc |-> "IndexError"]
         ELSE evict_newest(SubSeq(buf, 1, Len(buf) - 1), rows)
    ELSE [buffer |-> buf, exc |-> "none"]

\* the while loop of write: buffer.pop(0) while the buffer is longer than
\* rows - 2; pop on an empty list raises IndexError
RECURSIVE evict(_, _)
evict(buf, rows) ==
    IF Len(buf) > rows - 2
    THEN IF buf = <<>> THEN [buffer |-> buf, exc |-> "IndexError"]
         ELSE evict(Tail(buf), rows)
    ELSE [buffer |-> buf, exc |-> "none"]

\* pyMenuStdOut.write(text) on a terminal of rows rows: [buffer, exc]
write(buf, text, rows) == evict(append_lines(buf, splitlines(text)), rows)

\* _write_buffer: line idx of the buffer is written on the cleared row idx + 2;
\* the rows below the buffer keep what they hold
_write_buffer(shown, buf) == buf \o SubSeq(shown, Len(buf) + 1, Len(shown))

\* the segments of text between line feeds, each stripped, in order
Breaks(text) == {0, Len(text)} \cup {i \in 1..Len(text) : text[i] = "\n"}

NthBreak(text, i) ==
    CHOOSE b \in Breaks(text) : Cardinality({c \in Breaks(text) : c < b}) = i - 1

Core(seg) ==
    LET ink == {i \in 1..Len(seg) : seg[i] \notin Whitespace}
    IN  IF ink = {} THEN <<>>
        ELSE SubSeq(seg, CHOOSE i \in ink : \A j \in ink : i <= j,
                         CHOOSE i \in ink : \A j \in ink : j <= i)

\* the non-blank lines of a text, stripped, in the order they are written
NonBlankLines(text) ==
    LET n == Cardinality(Breaks(text))
        segs == [i \in 1..(n - 1) |->
                    Core(SubSeq(text, NthBreak(text, i) + 1, NthBreak(text, i + 1)))]
    IN  SelectSeq(segs, LAMBDA l : l # <<>>)

\* execute has set sys.stdout = Terminal.pyMenuStdOut() and called the
\* action of the first item of a Vertical root
InitStdOut ==
    /\ Tree("V", "Root", [n \in 2..MaxNodes |-> [k |-> "item", p |-> Root]],
            Config(TRUE, FALSE, FALSE, PyNone))
    /\ _current_index = [n \in Nodes |-> IF n = Root THEN 0 ELSE -1]
    /\ _location = [n \in Nodes |-> <<1, 1>>]
    /\ _current_menu = Root
    /\ pc = "action"
    /\ screen = {Root}
    /\ cells = VCells(_location, Root)
    /\ sent_low = <<1>>
    /\ stdout = "pyMenuStdOut"
    /\ threads = {}
    /\ joinee = 0
    /\ executing = 2
    /\ invoked = Called(<<>>)
    /\ outcome = "none"
    /\ result = "Running"
    /\ banner = "none"
    /\ ackKeys = 0
    /\ arg_input = "none"
    /\ prev = [key |-> "ENTER", cm |-> Root, ci |-> [n \in Nodes |-> IF n = Root THEN 0 ELSE -1]]
    /\ raised = "None"
    /\ calls = 0
    /\ NoBuffer
    /\ up_run = FALSE

\* the action calls sys.stdout.write(text); the terminal has rows rows
WriteText(text, rows) ==
    /\ pc = "action"
    /\ stdout = "pyMenuStdOut"
    /\ calls < MaxWrites
    /\ calls' = calls + 1
    /\ LET w == write(buffer, text, rows)
       IN  /\ buffer' = w.buffer
           /\ out_rows' = IF w.exc = "none" THEN _write_buffer(out_rows, w.buffer)
                          ELSE out_rows
    /\ term_rows' = rows
    /\ written' = written \o NonBlankLines(text)
    /\ UNCHANGED <<treeVars, navVars, execVars, pc, prev, raised, up_run>>

Write == \E text \in Texts, rows \in TermRows : WriteText(text, rows)

NextStdOut == Write

SpecStdOut == InitStdOut /\ [][NextStdOut]_vars

(***************************************************************************)
(* The walk-out specification: show() on a Horizontal root whose other     *)
(* containers are all Vertical; after any keys the user turns to pressing  *)
(* UP and nothing else, and keeps pressing it.                             *)
(***************************************************************************)
InitUp ==
    /\ Init
    /\ _type[Root] = "H"
    /\ \A n \in Menus \ {Root} : _type[n] = "V"

\* any step of show and execute, before the run of UP keys
Browse == ~up_run /\ Next

\* the loop is reading a key, and from here on every key is UP
StartUpRun ==
    /\ pc = "read_key"
    /\ ~up_run
    /\ up_run' = TRUE
    /\ UNCHANGED <<treeVars, navVars, execVars, pc, prev, raised, calls, bufVars>>

\* the next UP of the run
UpRun == up_run /\ KeyUp

\* a background thread started before the run ends during it
UpRunThreadEnd == up_run /\ ThreadEnd

NextUp == Browse \/ StartUpRun \/ UpRun \/ UpRunThreadEnd

\* the user keeps pressing UP: the loop reads each of these keys
SpecUp == InitUp /\ [][NextUp]_vars /\ WF_vars(UpRun)

(***************************************************************************)
(* Properties                                                              *)
(***************************************************************************)
\* the focus path: the focused container and its ancestors up to the root
RECURSIVE FocusPath(_)
FocusPath(c) == IF c = None THEN {} ELSE {c} \cup FocusPath(_parent[c])

\* the child a container had selected before the last key, None for -1
PrevSelected ==
    IF prev.cm # None /\ prev.ci[prev.cm] >= 0 /\ prev.ci[prev.cm] < Len(_items[prev.cm])
    THEN _items[prev.cm][prev.ci[prev.cm] + 1]
    ELSE None

\* the last key was ENTER on an item, its action has returned (in the
\* foreground, or in a joined thread) and so has execute
EnterActionReturned ==
    /\ prev.key = "ENTER"
    /\ result \in {"Completed", "Joined"}
    /\ outcome = "return"
    /\ executing = None

\* C1: in every state reached by show and its keys, every container's
\* _current_index is -1 or an index of one of its children
C1_IndexInRange ==
    \A n \in Menus :
        _current_index[n] = -1
        \/ (0 <= _current_index[n] /\ _current_index[n] < Len(_items[n]))

\* C1 witness: DOWN or RIGHT was pressed with the last of several children
\* selected, and the selection is still that last child
C1_Witness ==
    /\ prev.key \in {"DOWN", "RIGHT"}
    /\ pc = "read_key"
    /\ _current_menu = prev.cm
    /\ Len(_items[_current_menu]) >= 2
    /\ prev.ci[prev.cm] = Len(_items[_current_menu]) - 1
    /\ _current_index[_current_menu] = Len(_items[_current_menu]) - 1

\* C2: every container that is not on the focus path has _current_index -1
C2_OffPathUnselected ==
    \A n \in Menus \ FocusPath(_current_menu) : _current_index[n] = -1

\* C2 witness: UP or LEFT left a non-root container that had a selection;
\* it is now off the focus path
C2_Witness ==
    /\ prev.key \in {"UP", "LEFT"}
    /\ prev.cm \notin {None, Root}
    /\ prev.ci[prev.cm] = 0
    /\ _current_menu = _parent[prev.cm]
    /\ prev.cm \notin FocusPath(_current_menu)
    /\ _current_index[prev.cm] = -1

\* C3 as stated: after ENTER on an item whose action returned, the focus is
\* the root and the root's _current_index is -1
C3_RootIndexReset ==
    EnterActionReturned => (_current_menu = Root /\ _current_index[Root] = -1)

\* C3 amended: after ENTER on an item whose action returned, the focus is the
\* root and the root's _current_index is the index, 0 or more, it had when
\* ENTER was pressed
C3_RootIndexKept ==
    EnterActionReturned =>
        /\ _current_menu = Root
        /\ _current_index[Root] = prev.ci[Root]
        /\ _current_index[Root] >= 0

\* C3 witness: the action of an item below a Horizontal root has returned
C3_Witness ==
    /\ EnterActionReturned
    /\ pc = "read_key"
    /\ _type[Root] = "H"
    /\ prev.cm # Root
    /\ _current_menu = Root
    /\ _current_index[Root] >= 0

\* C4: after ENTER on an item at any depth whose action returned, the focus is
\* the root and every non-root container of the former focus path is off the
\* screen with _current_index -1
C4_PathCollapsed ==
    EnterActionReturned =>
        /\ _current_menu = Root
        /\ \A n \in FocusPath(prev.cm) \ {Root} :
              _current_index[n] = -1 /\ n \notin screen

\* C4 witness: the item was two containers below the root, and both had a
\* selection when ENTER was pressed
C4_Witness ==
    /\ EnterActionReturned
    /\ pc = "read_key"
    /\ prev.cm # None
    /\ _parent[prev.cm] \notin {None, Root}
    /\ prev.ci[prev.cm] >= 0
    /\ prev.ci[_parent[prev.cm]] >= 0
    /\ _current_menu = Root
    /\ stdout = "__stdout__"

\* C5 as stated: once ESC has been read with the root focused the loop has ended
C5_EscAtRootEndsLoop ==
    (prev.key = "ESC" /\ prev.cm = Root) => pc = "returned"

\* C6 as stated: add_item with a child that already has a parent, or whose
\* name the container already holds, raises InvalidAttach and attaches nothing
C6_InvalidAttachRejected ==
    [][\A self \in Menus, item \in Nodes \ {Root} :
          (/\ AddItemTo(self, item)
           /\ kind[item] # "other"
           /\ (_parent[item] # None \/ KeyPos(_items[self], name[item], name) # 0))
          => (raised' = "InvalidAttach" /\ _items' = _items /\ _parent' = _parent)]_vars

\* C7: LEFT on a focused non-root Vertical container with selection 0 or -1
\* takes it off the screen, sets its selection to -1 and focuses its parent;
\* with selection 1 or more LEFT changes neither the focus nor any selection
C7_LeftOnVertical ==
    (prev.key = "LEFT" /\ prev.cm \notin {None, Root} /\ _type[prev.cm] = "V") =>
        IF prev.ci[prev.cm] <= 0
        THEN /\ _current_menu = _parent[prev.cm]
             /\ _current_index = [prev.ci EXCEPT ![prev.cm] = -1]
             /\ prev.cm \notin screen
        ELSE _current_menu = prev.cm /\ _current_index = prev.ci

\* C7 witness: LEFT was pressed at selection 0 of a non-root Vertical
\* container whose parent has other containers among its children
C7_Witness ==
    /\ prev.key = "LEFT"
    /\ prev.cm \notin {None, Root}
    /\ _type[prev.cm] = "V"
    /\ prev.ci[prev.cm] = 0
    /\ \E n \in Menus \ {prev.cm} : _parent[n] = _parent[prev.cm]
    /\ _current_menu = _parent[prev.cm]

\* C8: DOWN on a focused Horizontal root whose selected child is a container
\* without children changes neither the focus nor any selection
C8_DownOnChildless ==
    (/\ prev.key = "DOWN"
     /\ prev.cm = Root
     /\ _type[Root] = "H"
     /\ PrevSelected # None
     /\ kind[PrevSelected] = "pyMenu"
     /\ Len(_items[PrevSelected]) = 0)
    => (pc = "read_key" /\ _current_menu = Root /\ _current_index = prev.ci)

\* C8 witness: DOWN was pressed on such a root
C8_Witness ==
    /\ prev.key = "DOWN"
    /\ prev.cm = Root
    /\ _type[Root] = "H"
    /\ PrevSelected # None
    /\ kind[PrevSelected] = "pyMenu"
    /\ Len(_items[PrevSelected]) = 0
    /\ _current_menu = Root

\* C9: whether the action completed, the prompted text failed to parse or the
\* action raised an exception, show is not left, and once execute has
\* returned the loop reads keys again with the root focused, the root's
\* selection as before and no other selection
C9_AlwaysBackToRoot ==
    result \in {"Completed", "ArgumentError", "ActionFailed"} =>
        /\ pc \in {"wait_key", "parse_error_key", "error_key", "read_key"}
        /\ executing = None =>
              /\ pc = "read_key"
              /\ _current_menu = Root
              /\ _current_index = [n \in Nodes |-> IF n = Root THEN prev.ci[Root] ELSE -1]

\* C9 witness: a foreground action raised, the key was read and execute returned
C9_Witness ==
    /\ result = "ActionFailed"
    /\ outcome = "raise"
    /\ executing = None
    /\ ackKeys = 1
    /\ pc = "read_key"
    /\ _current_menu = Root

\* C10 as stated: when an action has raised and control is back in the menu,
\* the error banner was written and exactly one key was consumed
C10_RaiseCaughtAndAcknowledged ==
    (outcome = "raise" /\ result # "none" /\ executing = None /\ pc = "read_key") =>
        (banner = "exec_error" /\ ackKeys = 1)

\* C11 as stated: whenever execute has returned from a foreground action,
\* whether the action returned or raised, sys.stdout is the terminal again
C11_StdoutRestored ==
    (result \in {"Completed", "ActionFailed"} /\ executing = None) =>
        stdout = "__stdout__"

\* C12: once the line typed at the prompt has failed to parse, the action is
\* not called, with no arguments or any other, and the argument error is
\* what execute reports
C12_ParseFailureAborts ==
    arg_input = "*bad*" =>
        /\ ~invoked.called
        /\ result = "ArgumentError"
        /\ banner = "parse_error"
        /\ pc \in {"parse_error_key", "read_key"}

\* C12 witness: the malformed line was typed, the key after the error was
\* read and execute has returned without a call
C12_Witness ==
    /\ arg_input = "*bad*"
    /\ ackKeys = 1
    /\ executing = None
    /\ pc = "read_key"
    /\ ~invoked.called

\* C13: the arguments of the call execute makes for the item ENTER was
\* pressed on: static args are used without a prompt; None, or an empty
\* prompted line, gives no arguments; a single value gives one argument; a
\* tuple gives its elements
C13_ArgsResolved ==
    (prev.key = "ENTER" /\ invoked.called /\ PrevSelected # None) =>
        LET a == args[PrevSelected]
        IN  /\ a # PyEmptyStr => arg_input = "none"
            /\ a = PyEmptyStr => arg_input # "none"
            /\ a = PyNone => invoked.args = <<>>
            /\ a = PyInt7 => (Len(invoked.args) = 1 /\ invoked.args = <<PyInt7.v>>)
            /\ a = PyTuple12 => (Len(invoked.args) = 2 /\ invoked.args = <<1, 2>>)
            /\ (a = PyEmptyStr /\ arg_input \in {"", "  "}) => invoked.args = <<>>

\* C13 witness: an item whose static args is the single value 7 was called
\* with the one argument 7
C13_Witness ==
    /\ prev.key = "ENTER"
    /\ PrevSelected # None
    /\ args[PrevSelected] = PyInt7
    /\ invoked = Called(<<PyInt7.v>>)
    /\ arg_input = "none"
    /\ outcome = "return"

\* C14: when execute starts a thread for an item with wait, it stays in
\* execute joining that thread; it leaves the join only once the thread has
\* ended, and no key is dispatched in between. For an item without wait,
\* execute has returned and the loop reads keys while the thread is alive
C14_JoinOnlyWithWait ==
    [][LET launched == threads' \ threads
           item == IF pc = "read_line" THEN executing ELSE PrevSelected'
       IN  /\ launched # {} =>
                  /\ threaded[item]
                  /\ IF wait[item]
                     THEN pc' = "join" /\ joinee' \in launched /\ executing' = item
                     ELSE pc' = "read_key" /\ executing' = None
           /\ pc = "join" => (joinee # 0 /\ prev' = prev)
           /\ (pc = "join" /\ pc' # "join") => (joinee \notin threads /\ pc' = "read_key")]_vars

\* C14 witness: execute is blocked in join on the live thread of an item with
\* threaded and wait
C14_Witness ==
    /\ pc = "join"
    /\ executing # None
    /\ threaded[executing] /\ wait[executing]
    /\ joinee \in threads
    /\ invoked.called

\* the loop of show has drawn the focused container and written the status
\* line, and is reading the next key
LoopHasDrawn == pc = "read_key"

\* C15 as stated: whenever the loop draws, no action started by execute is
\* still running
C15_NoWriterBesideLoop ==
    LoopHasDrawn => (executing = None /\ threads = {})

\* C15 amended: whenever the loop draws, no foreground action and no joined
\* thread is running; the threads still alive were started by items with
\* threaded and without wait
C15_OnlyDetachedBesideLoop ==
    LoopHasDrawn =>
        /\ executing = None
        /\ joinee = 0
        /\ threads # {} =>
              \A n \in Nodes : kind[n] = "pyMenuItem" => (threaded[n] /\ ~wait[n])

\* C15 witness: two threads are alive and the loop has dispatched an arrow key
\* and drawn
C15_Witness ==
    /\ LoopHasDrawn
    /\ Cardinality(threads) = 2
    /\ prev.key = "DOWN"
    /\ _current_index[_current_menu] # prev.ci[_current_menu]

\* C16: _erase sets the container's _current_index to -1, blanks the cells
\* of its rectangle and changes nothing else (no anchor, no other index, no
\* other cell); applied again to the state it produced it changes nothing,
\* and an _erase right after an _erase of the same container is a no-op
C16_EraseIdempotent ==
    [][\A n \in Menus :
          RenderErase(n) =>
              LET twice == _erase(Cur', n)
              IN  /\ _current_index' = [_current_index EXCEPT ![n] = -1]
                  /\ cells' = cells \ EraseCells(_location, n)
                  /\ _location' = _location
                  /\ twice.ci = _current_index'
                  /\ twice.px = cells'
                  /\ twice.loc = _location'
                  /\ (prev.key = "_erase" /\ prev.cm = n) =>
                         (cells' = cells /\ _current_index' = _current_index)]_vars

\* C16 witness: a container that was drawn with a selection has been erased
\* twice in a row while cells of other containers are painted
C16_Witness ==
    /\ pc = "render"
    /\ prev.key = "_erase"
    /\ prev.ci[prev.cm] = -1
    /\ _current_index[prev.cm] = -1
    /\ Len(_items[prev.cm]) >= 2
    /\ prev.cm \notin screen
    /\ cells # {}
    /\ cells \cap EraseCells(_location, prev.cm) = {}
    /\ \E m \in screen : _parent[prev.cm] = m

\* C18 as stated: every row and column number in a cursor address that draw
\* and erase have sent to the terminal is at least 1
C18_CoordinatesAtLeastOne ==
    IF sent_low = <<>> THEN TRUE ELSE sent_low[1] >= 1

\* the name lengths of the children of n, each with the margin 4
ChildWidths(n) == {Len(name[_items[n][k]]) + 4 : k \in 1..Len(_items[n])}

SetMax(S) == CHOOSE x \in S : \A y \in S : y <= x

\* C17 as stated: in every state (after the add_item calls, and after any
\* key, draw or erase) the width of a container with children is the
\* greatest child name length plus 4
C17_WidthIsChildMax ==
    \A n \in Menus :
        Len(_items[n]) > 0 => _width[n] = SetMax(ChildWidths(n))

\* C17 amended: in every state the width of a container is the greater of
\* its own name length and the greatest child name length plus 4 (its own
\* name length when it has no children)
C17_WidthIsNameOrChildMax ==
    \A n \in Menus :
        _width[n] = SetMax({Len(name[n])} \cup ChildWidths(n))

\* C17 witness: a root with a 9-letter name and the children "A", "BB", "CCC"
\* has width 9 after keys were dispatched and it was drawn
C17_Witness ==
    /\ pc = "read_key"
    /\ prev.key = "DOWN"
    /\ name[Root] = "Main Menu"
    /\ Len(_items[Root]) = 3
    /\ SetMax(ChildWidths(Root)) = 7
    /\ _width[Root] = 9
    /\ Root \in screen

\* C19: after a key that is None or a printable character, the focus and
\* every _current_index are what they were before the key, no execute was
\* started and the loop reads the next key
C19_OtherKeyIsNoOp ==
    prev.key \in {"x", "None"} =>
        /\ _current_menu = prev.cm
        /\ _current_index = prev.ci
        /\ ~invoked.called
        /\ result = "none"
        /\ executing = None
        /\ pc = "read_key"

\* C19 witness: such a key was read while an item was selected in a
\* container below the root
C19_Witness ==
    /\ prev.key \in {"x", "None"}
    /\ pc = "read_key"
    /\ prev.cm \notin {None, Root}
    /\ PrevSelected # None
    /\ kind[PrevSelected] = "pyMenuItem"
    /\ _current_menu = prev.cm

\* C20 as stated: after DOWN on a focused Horizontal container whose
\* selected child is a container with children, the focus is that child, the
\* child's _current_index is 0 and the child is painted
C20_DownEntersAtZero ==
    (/\ prev.key = "DOWN"
     /\ prev.cm # None
     /\ _type[prev.cm] = "H"
     /\ PrevSelected # None
     /\ kind[PrevSelected] = "pyMenu"
     /\ Len(_items[PrevSelected]) > 0
     /\ stdout = "__stdout__")
    => /\ _current_menu = PrevSelected
       /\ _current_index[PrevSelected] = 0
       /\ PrevSelected \in screen

\* C21 as stated: DOWN or ENTER on a focused Horizontal container whose own
\* _current_index is -1 changes neither the focus nor any _current_index, and
\* when one of these keys moves the focus off a Horizontal container, it moves
\* it to the child that was selected
C21_NoEntryWithoutSelection ==
    (prev.key \in {"DOWN", "ENTER"} /\ prev.cm # None /\ _type[prev.cm] = "H") =>
        IF prev.ci[prev.cm] = -1
        THEN _current_menu = prev.cm /\ _current_index = prev.ci
        ELSE _current_menu # prev.cm => _current_menu = PrevSelected

\* C22 as stated: DOWN or ENTER on a focused Horizontal container whose
\* selected child is a pyMenuItem raises nothing, invokes nothing and changes
\* neither the focus nor any _current_index
C22_ItemOnBarAbsorbed ==
    (/\ prev.key \in {"DOWN", "ENTER"}
     /\ prev.cm # None
     /\ _type[prev.cm] = "H"
     /\ PrevSelected # None
     /\ kind[PrevSelected] = "pyMenuItem")
    => /\ pc = "read_key"
       /\ _current_menu = prev.cm
       /\ _current_index = prev.ci
       /\ ~invoked.called

\* C23: UP on a focused Vertical container with _current_index >= 1 lowers
\* that index by 1 and keeps the focus; with 0 or -1 the container is erased,
\* its index is -1 and the focus is its _parent; UP on a focused Horizontal
\* container changes neither the focus nor any index
C23_UpOnContainer ==
    (prev.key = "UP" /\ prev.cm # None) =>
        IF _type[prev.cm] = "H"
        THEN _current_menu = prev.cm /\ _current_index = prev.ci
        ELSE IF prev.ci[prev.cm] >= 1
        THEN /\ _current_menu = prev.cm
             /\ _current_index = [prev.ci EXCEPT ![prev.cm] = prev.ci[prev.cm] - 1]
        ELSE /\ _current_menu = _parent[prev.cm]
             /\ _current_index = [prev.ci EXCEPT ![prev.cm] = -1]
             /\ stdout = "__stdout__" => prev.cm \notin screen

\* C23 witness: UP at index 0 of a non-root Vertical container moved the focus
\* to its parent
C23_Witness ==
    /\ prev.key = "UP"
    /\ prev.cm \notin {None, Root}
    /\ _type[prev.cm] = "V"
    /\ prev.ci[prev.cm] = 0
    /\ _current_menu = _parent[prev.cm]
    /\ _current_index[prev.cm] = -1
    /\ pc = "read_key"

\* C24: DOWN on a Vertical and RIGHT on a Horizontal container raise the
\* _current_index by 1 below the last child and leave it at the last child;
\* LEFT on a Horizontal container lowers an index >= 1 by 1 and leaves 0 at
\* 0; the focus and the other indices stay
C24_NoWrapAround ==
    (prev.cm # None /\ prev.ci[prev.cm] >= 0) =>
        LET i == prev.ci[prev.cm]
            last == Len(_items[prev.cm]) - 1
        IN  /\ ((prev.key = "DOWN" /\ _type[prev.cm] = "V")
                  \/ (prev.key = "RIGHT" /\ _type[prev.cm] = "H")) =>
                   /\ _current_menu = prev.cm
                   /\ _current_index =
                         [prev.ci EXCEPT ![prev.cm] = IF i < last THEN i + 1 ELSE i]
            /\ (prev.key = "LEFT" /\ _type[prev.cm] = "H") =>
                   /\ _current_menu = prev.cm
                   /\ _current_index =
                         [prev.ci EXCEPT ![prev.cm] = IF i >= 1 THEN i - 1 ELSE 0]

\* C24 witness: LEFT was pressed on a Horizontal container of several
\* children at index 0, which is still 0
C24_Witness ==
    /\ prev.key = "LEFT"
    /\ prev.cm # None
    /\ _type[prev.cm] = "H"
    /\ Len(_items[prev.cm]) >= 2
    /\ prev.ci[prev.cm] = 0
    /\ _current_index[prev.cm] = 0
    /\ pc = "read_key"

\* C25: RIGHT or ENTER on a focused Vertical container whose _current_index
\* is -1 sets that index to 0 and does nothing else: the focus stays, no
\* other index changes and execute is not started
C25_FirstKeySelects ==
    (/\ prev.key \in {"RIGHT", "ENTER"}
     /\ prev.cm # None
     /\ _type[prev.cm] = "V"
     /\ prev.ci[prev.cm] = -1)
    => /\ _current_menu = prev.cm
       /\ _current_index = [prev.ci EXCEPT ![prev.cm] = 0]
       /\ ~invoked.called
       /\ result = "none"
       /\ executing = None
       /\ pc = "read_key"

\* C25 witness: ENTER was pressed in a drop-down without selection whose
\* last child, the one the index -1 looks up, is an item with a callable action
C25_Witness ==
    /\ prev.key = "ENTER"
    /\ prev.cm \notin {None, Root}
    /\ _type[prev.cm] = "V"
    /\ prev.ci[prev.cm] = -1
    /\ prev.ci[Root] >= 0
    /\ Len(_items[prev.cm]) >= 2
    /\ kind[_items[prev.cm][Len(_items[prev.cm])]] = "pyMenuItem"
    /\ action[_items[prev.cm][Len(_items[prev.cm])]]
    /\ _current_index[prev.cm] = 0
    /\ _current_menu = prev.cm

C27_EraseInvokeRedraw ==
    [][/\ (executing' # None \/ result' # "none") =>
              /\ prev'.key = "ENTER"
              /\ \A n \in FocusPath(prev'.cm) \ {Root} :
                    _current_index'[n] = -1 /\ n \notin screen'
       /\ (executing = None /\ executing' # None) =>
              (_current_menu' = prev'.cm /\ screen' \subseteq {Root})
       /\ (executing # None /\ executing' # None) =>
              UNCHANGED <<_current_menu, _current_index, _location, screen, cells>>
       /\ (executing # None /\ executing' = None) =>
              /\ _current_menu' = Root
              /\ stdout' = "__stdout__" => Root \in screen']_vars

\* C27 witness: the action of an item two containers below the root is
\* running, both containers had a selection and are erased, and the focus
\* has not been reset yet
C27_Witness ==
    /\ pc = "action"
    /\ executing # None
    /\ prev.key = "ENTER"
    /\ prev.cm \notin {None, Root}
    /\ _parent[prev.cm] \notin {None, Root}
    /\ prev.ci[prev.cm] >= 0
    /\ prev.ci[_parent[prev.cm]] >= 0
    /\ _current_index[prev.cm] = -1
    /\ _current_index[_parent[prev.cm]] = -1
    /\ screen = {Root}
    /\ _current_menu = prev.cm

\* C28 as stated: ESC on a focused Vertical container with _current_index -1
\* whose parent is the root erases it and moves the focus to the root; ESC on
\* a focused Vertical container otherwise changes nothing
C28_EscLeavesDropDown ==
    (prev.key = "ESC" /\ prev.cm # None /\ _type[prev.cm] = "V") =>
        IF prev.ci[prev.cm] = -1 /\ _parent[prev.cm] = Root
        THEN /\ _current_menu = Root
             /\ _current_index = prev.ci
             /\ stdout = "__stdout__" => prev.cm \notin screen
        ELSE _current_menu = prev.cm /\ _current_index = prev.ci

\* C29 as stated: for a painted Horizontal container, child k is anchored on
\* the row below the container, at the column where its entry is painted:
\* the container's column plus the painted widths of the entries before it
C29_BarAnchorsAtPaintedColumns ==
    \A n \in Menus :
        (_type[n] = "H" /\ n \in screen /\ stdout = "__stdout__") =>
            \A k \in 1..Len(_items[n]) :
                _location[_items[n][k]] =
                    <<_location[n][1] + 1, _location[n][2] + HText(n, k - 1)>>

\* the focused container is Vertical and the loop has just painted it
FocusedVerticalPainted ==
    /\ pc = "read_key"
    /\ stdout = "__stdout__"
    /\ _current_menu # None
    /\ _type[_current_menu] = "V"
    /\ _current_menu \in screen

\* the cells of the entries of the Vertical container m when the first entry
\* is painted on the row first
EntryCells(m, first) ==
    UNION {Span(first + k - 1, _location[m][2] - 1, _width[m] + 3) : k \in 1..Len(_items[m])}

DrawnCells(loc, n) == IF _type[n] = "H" THEN HCells(loc, n) ELSE VCells(loc, n)

\* C31 as stated: the cells a _draw of a container paints lie in the rectangle
\* its _erase blanks, and an _erase that follows the _draw of the same
\* container leaves none of the cells that _draw painted
C31_EraseBlanksLastDraw ==
    [][\A n \in Menus :
          (RenderErase(n) /\ prev.key = "_draw" /\ prev.cm = n) =>
              /\ DrawnCells(_location, n) \subseteq EraseCells(_location, n)
              /\ cells' \cap DrawnCells(_location, n) = {}]_vars

NoWaitItemEntered ==
    /\ prev.key = "ENTER"
    /\ result # "none"
    /\ PrevSelected # None
    /\ kind[PrevSelected] = "pyMenuItem"
    /\ ~wait[PrevSelected]

\* C33 as stated: for an item with an action whose wait is false, execute
\* reads a key only when the action raised an exception; when the action
\* completed, when the prompted text failed to parse and when the action was
\* started in a thread it reads none
C33_KeyOnlyAfterRaise ==
    (NoWaitItemEntered /\ action[PrevSelected]) =>
        /\ ackKeys > 0 => result = "ActionFailed"
        /\ result \in {"Completed", "ArgumentError", "Launched"} => ackKeys = 0

\* C33 amended: for an item whose wait is false, execute reads exactly one
\* key when the action raised an exception in the foreground, when the
\* prompted text failed to parse and when the action is not callable, and
\* has read it when it returns; when the action completed or was started in
\* a thread execute returns having read none
C33_KeyAfterRaiseParseErrorNotCallable ==
    NoWaitItemEntered =>
        /\ ackKeys <= 1
        /\ ackKeys = 1 => result \in {"ActionFailed", "ArgumentError", "NotCallable"}
        /\ (result \in {"ActionFailed", "ArgumentError", "NotCallable"} /\ executing = None)
              => ackKeys = 1
        /\ result \in {"Completed", "Launched"} => (ackKeys = 0 /\ executing = None)

\* C33 witness: the line typed at the prompt of an item whose wait is false
\* failed to parse, and execute has returned after reading one key
C33_Witness ==
    /\ NoWaitItemEntered
    /\ arg_input = "*bad*"
    /\ result = "ArgumentError"
    /\ ackKeys = 1
    /\ executing = None
    /\ pc = "read_key"

\* C34 as stated: while show runs, whatever keys were pressed and whatever
\* the type of the root, _current_menu is a container of the tree with at
\* least one child
C34_FocusIsAContainer ==
    pc \notin {"start", "returned"} =>
        /\ _current_menu \in Menus
        /\ Len(_items[_current_menu]) > 0

\* C35: below a Horizontal root whose other containers are all Vertical,
\* each UP of a run of UP keys either lowers the _current_index of the
\* focused container by 1 and keeps the focus, or (at index 0 or -1) sets
\* that index to -1 and moves the focus to the container's _parent; no other
\* index changes and nothing is executed; on the root UP changes nothing;
\* and the run brings the focus to the root
C35_UpRunReachesRoot ==
    /\ [][UpRun =>
            /\ pc' = "read_key" /\ executing' = None /\ ~invoked'.called
            /\ IF _current_menu = Root
               THEN _current_menu' = Root /\ _current_index' = _current_index
               ELSE IF _current_index[_current_menu] >= 1
               THEN /\ _current_menu' = _current_menu
                    /\ _current_index' = [_current_index EXCEPT ![_current_menu] = @ - 1]
               ELSE /\ _current_menu' = _parent[_current_menu]
                    /\ _current_index' = [_current_index EXCEPT ![_current_menu] = -1]]_vars
    /\ (up_run ~> (up_run /\ _current_menu = Root /\ pc = "read_key"))

\* C35 witness: the run of UP keys has brought the focus from a Vertical
\* container with several children, through index 0, to the root
C35_Witness ==
    /\ up_run
    /\ prev.key = "UP"
    /\ prev.cm \notin {None, Root}
    /\ _type[prev.cm] = "V"
    /\ Len(_items[prev.cm]) >= 2
    /\ prev.ci[prev.cm] = 0
    /\ _parent[prev.cm] = Root
    /\ _current_menu = Root
    /\ _current_index[prev.cm] = -1
    /\ pc = "read_key"

TypeOK ==
    /\ pc \in {"start", "returned", "read_key", "crashed", "exited", "read_line",
               "parse_error_key", "action", "join", "error_key", "wait_key",
               "not_callable_key", "assemble", "render"}
    /\ _current_menu \in Nodes \cup {None}
    /\ stdout \in {"__stdout__", "pyMenuStdOut"}
    /\ threads \subseteq 1..MaxThreads

=============================================================================
